---- MODULE Spec2Model ----
(***************************************************************************)
(* One invocation of the Qdrant management script qdrant_manage_3.py:      *)
(* argument dispatch, the five action functions, the HTTP requests they    *)
(* send, the confirmation prompts they show and what the view action       *)
(* prints.                                                                 *)
(*                                                                         *)
(* A Python str is a sequence of characters.  A literal of the program     *)
(* that is only interpolated and compared whole ("/collections/", a        *)
(* collection name) is written as a one-element sequence.  None, str and   *)
(* int values are tagged records, so that truthiness is computed as        *)
(* Python computes it.                                                     *)
(*                                                                         *)
(* The action functions block on requests.get / requests.post / input();   *)
(* each action of the model is the code that runs between two such calls.  *)
(***************************************************************************)
EXTENDS Integers, Sequences, FiniteSets, TLC

\* ------------------------------------------------------------------ bounds
\* points in one scroll response
MaxPoints == 2
\* characters typed at a confirmation prompt
MaxInputLen == 3

\* ------------------------------------------------------- program constants
SampleLen == 100
ChunkScrollLimit == 1000
DefaultBatchSize == 100
DefaultLimit == 10
DefaultPort == 6333
StatusOK == 200

\* ------------------------------------------------------------ Python values
PyNone == [t |-> "none"]
PyStr(s) == [t |-> "str", s |-> s]
PyInt(n) == [t |-> "int", n |-> n]

\* bool(v) for the values above
Truthy(v) ==
    CASE v.t = "none" -> FALSE
      [] v.t = "str" -> v.s # <<>>
      [] v.t = "int" -> v.n # 0

\* a or b
Or(a, b) == IF Truthy(a) THEN a ELSE b

\* dict.get(key): None when the key is absent
Get(d, key) == IF key \in DOMAIN d THEN d[key] ELSE PyNone

\* s[:n]
Take(s, n) == SubSeq(s, 1, IF Len(s) < n THEN Len(s) ELSE n)

LowerChar(c) ==
    CASE c = "Y" -> "y"
      [] c = "N" -> "n"
      [] c = "E" -> "e"
      [] c = "S" -> "s"
      [] OTHER -> c

\* str.lower()
Lower(s) == [i \in 1..Len(s) |-> LowerChar(s[i])]

\* ----------------------------------------------------------------- make_url
make_url(host, port, path, https) ==
    <<IF https THEN "https" ELSE "http", "://", host, ":", port>> \o path

CollectionsPath == <<"/collections">>
ScrollPath(collection) == <<"/collections/">> \o collection.s \o <<"/points/scroll">>
DeletePath(collection) == <<"/collections/">> \o collection.s \o <<"/points/delete">>

\* ------------------------------------------------------------------- state
VARIABLES
    args,       \* the parsed command line
    pc,         \* where the invocation is
    ran,        \* the action function main called ("" before the dispatch)
    requests,   \* the HTTP requests sent, in order
    answers,    \* the status codes received, in order
    prompts,    \* the confirmation prompts shown, in order
    inputs,     \* what was typed at each prompt
    points,     \* the points of the last 200 scroll response
    report,     \* the documents printed by the view action
    out         \* the other messages printed, in order

vars == <<args, pc, ran, requests, answers, prompts, inputs, points, report, out>>

docs == <<"docs">>
OptStrings == {PyNone, PyStr(<<>>), PyStr(docs)}
FieldStrings == {PyNone, PyStr(<<>>), PyStr(<<"doc_id">>)}
ValueStrings == {PyNone, PyStr(<<>>), PyStr(<<"A">>)}

Args ==
    [list : BOOLEAN, view : BOOLEAN, inspect : BOOLEAN,
     delete_all : BOOLEAN, delete_chunk : BOOLEAN,
     collection : OptStrings, chunk_field : FieldStrings, value : ValueStrings,
     yes : BOOLEAN, https : BOOLEAN,
     host : {"localhost"}, port : {DefaultPort},
     batch_size : {DefaultBatchSize}, limit : {DefaultLimit}]

Init ==
    /\ args \in Args
    /\ pc = "start"
    /\ ran = ""
    /\ requests = <<>>
    /\ answers = <<>>
    /\ prompts = <<>>
    /\ inputs = <<>>
    /\ points = <<>>
    /\ report = <<>>
    /\ out = <<>>

\* ------------------------------------------------------ what the backend may send
Statuses == {200, 204, 404}

hello == <<"h", "e", "l", "l", "o">>
world == <<"w", "o", "r", "l", "d">>
\* a text of n characters, no character equal to the next one
TextOfLen(n) == [i \in 1..n |-> IF i % 3 = 0 THEN "a" ELSE IF i % 3 = 1 THEN "b" ELSE "c"]

Payloads ==
    { <<>>,
      [doc_id |-> PyStr(<<"A">>), text |-> PyStr(hello)],
      [doc_id |-> PyStr(<<"A">>), text |-> PyStr(world)],
      [doc_id |-> PyStr(<<"B">>), text |-> PyStr(TextOfLen(SampleLen + 1))],
      [source |-> PyStr(<<"S">>), text |-> PyStr(TextOfLen(SampleLen))],
      [filename |-> PyStr(<<"F">>), text |-> PyStr(<<>>)],
      [doc_id |-> PyStr(<<>>), source |-> PyStr(<<"S">>), text |-> PyStr(hello)],
      [doc_id |-> PyInt(0), source |-> PyStr(<<"S">>), filename |-> PyStr(<<"F">>)],
      [doc_id |-> PyStr(<<"A">>), source |-> PyStr(<<"S">>),
       filename |-> PyStr(<<"F">>), text |-> PyStr(world)],
      [source |-> PyStr(<<>>), filename |-> PyStr(<<"F">>),
       text |-> PyStr(TextOfLen(SampleLen + 3))] }

\* a point of a scroll with with_payload true; the payload key may be missing
PointBodies == {[payload |-> p] : p \in Payloads} \cup {<<>>}

SeqsUpTo(S, n) == UNION {[1..k -> S] : k \in 0..n}

\* the pages a scroll with with_payload true may return: ids are those of the backend
PayloadPages ==
    {[i \in 1..Len(f) |-> ("id" :> i) @@ f[i]] : f \in SeqsUpTo(PointBodies, MaxPoints)}

PointIds == 1..(MaxPoints + 1)

\* the pages a scroll with with_payload false may return: distinct ids, any order
IdPages ==
    {[i \in 1..Len(f) |-> [id |-> f[i]]] :
        f \in {g \in SeqsUpTo(PointIds, MaxPoints) :
                  \A i, j \in 1..Len(g) : i # j => g[i] # g[j]}}

InputChars == {"y", "Y", "n", "e", "s", " "}
\* the lines input() may return
InputLines == SeqsUpTo(InputChars, MaxInputLen)

\* ------------------------------------------------------------ the conditions
\* bug: "args.collection is None" lets an empty string through
MissingIsNone(v) == v = PyNone

\* "not args.collection", "not args.chunk_field", "not args.value"
Missing(v) == ~Truthy(v)

\* bug: the flag read the wrong way round
NeedsConfirmInverted(a) == a.yes

\* "if not args.yes"
NeedsConfirm(a) == ~a.yes

\* bug: any response starting with y/Y accepted
ConfirmedPrefix(line) == line # <<>> /\ Lower(line)[1] = "y"

\* input(...).lower() ... "if confirm != "y"" is the negation
Confirmed(line) == Lower(line) = <<"y">>

\* bug: any 2xx status taken as success
FailedNon2xx(status) == status < 200 \/ status >= 300

\* "if r.status_code != 200"
Failed(status) == status # StatusOK

\* bug: "if points is None" lets an empty list through
NoPointsIsNone(pts) == FALSE

\* "if not points"
NoPoints(pts) == pts = <<>>

\* bug: the ids collected in reverse order
IdsReversed(pts) == [i \in 1..Len(pts) |-> pts[Len(pts) + 1 - i].id]

\* [p["id"] for p in points]
Ids(pts) == [i \in 1..Len(pts) |-> pts[i].id]

\* bug: the delete branches tested before the read-only ones
SelectedDeleteFirst(a) ==
    IF a.delete_all THEN "delete_all"
    ELSE IF a.delete_chunk THEN "delete_chunk"
    ELSE IF a.list THEN "list"
    ELSE IF a.view THEN "view"
    ELSE IF a.inspect THEN "inspect"
    ELSE "help"

\* the if / elif chain of the main block
Selected(a) ==
    IF a.list THEN "list"
    ELSE IF a.view THEN "view"
    ELSE IF a.inspect THEN "inspect"
    ELSE IF a.delete_all THEN "delete_all"
    ELSE IF a.delete_chunk THEN "delete_chunk"
    ELSE "help"

\* ------------------------------------------------------------- the requests
EmptyDict == <<>>

Url(a, path) == make_url(a.host, a.port, path, a.https)

ListRequest(a) ==
    [method |-> "GET", url |-> Url(a, CollectionsPath), body |-> PyNone]

ViewRequest(a) ==
    [method |-> "POST", url |-> Url(a, ScrollPath(a.collection)),
     body |-> [limit |-> a.batch_size, with_payload |-> TRUE, with_vector |-> FALSE]]

InspectRequest(a) ==
    [method |-> "POST", url |-> Url(a, ScrollPath(a.collection)),
     body |-> [limit |-> a.limit, with_payload |-> TRUE, with_vector |-> FALSE]]

DeleteAllRequest(a) ==
    [method |-> "POST", url |-> Url(a, DeletePath(a.collection)),
     body |-> [filter |-> EmptyDict]]

ChunkScrollRequest(a) ==
    [method |-> "POST", url |-> Url(a, ScrollPath(a.collection)),
     body |-> [filter |-> [must |-> <<[key |-> a.chunk_field.s,
                                       match |-> [value |-> a.value.s]]>>],
               with_payload |-> FALSE, with_vector |-> FALSE,
               limit |-> ChunkScrollLimit]]

\* bug: the delete URL built from --value instead of --collection
ChunkDeleteRequestByValue(a, ids) ==
    [method |-> "POST", url |-> Url(a, DeletePath(a.value)),
     body |-> [points |-> ids]]

ChunkDeleteRequest(a, ids) ==
    [method |-> "POST", url |-> Url(a, DeletePath(a.collection)),
     body |-> [points |-> ids]]

\* ---------------------------------------------------------- view_collection
\* payload.get("doc_id") or payload.get("source") or payload.get("filename") or "UNKNOWN"
DocId(payload) ==
    Or(Get(payload, "doc_id"),
       Or(Get(payload, "source"),
          Or(Get(payload, "filename"), PyStr(<<"UNKNOWN">>))))

\* payload.get("text") or ""
ChunkText(payload) == Or(Get(payload, "text"), PyStr(<<>>))

\* p.get("payload", {})
PayloadOf(p) == IF "payload" \in DOMAIN p THEN p.payload ELSE EmptyDict

\* doc_map.setdefault(key, []).append(text); a dict keeps its keys in insertion order
SetDefaultAppend(doc_map, key, text) ==
    IF \E i \in 1..Len(doc_map) : doc_map[i].key = key
    THEN [i \in 1..Len(doc_map) |->
            IF doc_map[i].key = key
            THEN [doc_map[i] EXCEPT !.chunks = Append(@, text)]
            ELSE doc_map[i]]
    ELSE Append(doc_map, [key |-> key, chunks |-> <<text>>])

RECURSIVE DocMapFrom(_, _)
DocMapFrom(doc_map, pts) ==
    IF pts = <<>> THEN doc_map
    ELSE DocMapFrom(SetDefaultAppend(doc_map, DocId(PayloadOf(Head(pts))),
                                     ChunkText(PayloadOf(Head(pts)))),
                    Tail(pts))

\* the loop "for p in points" starting from doc_map = {}
DocMap(pts) == DocMapFrom(<<>>, pts)

Ellipsis == <<".", ".", ".">>
NoText == <<"(", "n", "o", " ", "t", "e", "x", "t", ")">>

\* (chunks[0][:100] + "...") if chunks and chunks[0] else "(no text)"
Sample(chunks) ==
    IF chunks # <<>> /\ Truthy(chunks[1])
    THEN Take(chunks[1].s, SampleLen) \o Ellipsis
    ELSE NoText

\* what "for doc_id, chunks in doc_map.items()" prints
Report(doc_map) ==
    [i \in 1..Len(doc_map) |->
        [doc_id |-> doc_map[i].key,
         chunks |-> Len(doc_map[i].chunks),
         sample |-> Sample(doc_map[i].chunks)]]

\* ------------------------------------------------------------------ actions
Send(req) == requests' = Append(requests, req)
Say(msg) == out' = Append(out, msg)
Answer(status) == answers' = Append(answers, status)

\* main: args.list; list_collections up to requests.get
CallListCollections ==
    /\ pc = "start"
    /\ Selected(args) = "list"
    /\ ran' = "list"
    /\ Send(ListRequest(args))
    /\ pc' = "list_get"
    /\ UNCHANGED <<args, answers, prompts, inputs, points, report, out>>

\* list_collections after requests.get
ListCollectionsResponse ==
    /\ pc = "list_get"
    /\ \E status \in Statuses :
        /\ Answer(status)
        /\ IF Failed(status)
           THEN Say("Failed to list collections")
           ELSE Say("Collections found")
    /\ pc' = "done"
    /\ UNCHANGED <<args, ran, requests, prompts, inputs, points, report>>

\* main: args.view; view_collection up to requests.post
CallViewCollection ==
    /\ pc = "start"
    /\ Selected(args) = "view"
    /\ ran' = "view"
    /\ IF Missing(args.collection)
       THEN /\ Say("Please specify --collection")
            /\ pc' = "done"
            /\ UNCHANGED requests
       ELSE /\ Send(ViewRequest(args))
            /\ pc' = "view_post"
            /\ UNCHANGED out
    /\ UNCHANGED <<args, answers, prompts, inputs, points, report>>

\* view_collection after requests.post
ViewCollectionResponse ==
    /\ pc = "view_post"
    /\ \E status \in Statuses, page \in PayloadPages :
        /\ Answer(status)
        /\ IF Failed(status)
           THEN /\ Say("Failed to fetch data")
                /\ UNCHANGED <<points, report>>
           ELSE /\ points' = page
                /\ IF NoPoints(page)
                   THEN /\ out' = out \o <<"Previewing collection", "No points found.">>
                        /\ UNCHANGED report
                   ELSE /\ out' = out \o <<"Previewing collection", "Found document(s)">>
                        /\ report' = Report(DocMap(page))
    /\ pc' = "done"
    /\ UNCHANGED <<args, ran, requests, prompts, inputs>>

\* main: args.inspect; inspect_collection up to requests.post
CallInspectCollection ==
    /\ pc = "start"
    /\ Selected(args) = "inspect"
    /\ ran' = "inspect"
    /\ IF Missing(args.collection)
       THEN /\ Say("Please specify --collection")
            /\ pc' = "done"
            /\ UNCHANGED requests
       ELSE /\ Send(InspectRequest(args))
            /\ pc' = "inspect_post"
            /\ UNCHANGED out
    /\ UNCHANGED <<args, answers, prompts, inputs, points, report>>

\* inspect_collection after requests.post; the payload lines it prints are not modelled
InspectCollectionResponse ==
    /\ pc = "inspect_post"
    /\ \E status \in Statuses, page \in PayloadPages :
        /\ Answer(status)
        /\ IF Failed(status)
           THEN /\ Say("Failed to inspect")
                /\ UNCHANGED points
           ELSE /\ points' = page
                /\ IF NoPoints(page)
                   THEN out' = out \o <<"Inspecting collection", "No vectors found.">>
                   ELSE out' = out \o <<"Inspecting collection", "Vectors">>
    /\ pc' = "done"
    /\ UNCHANGED <<args, ran, requests, prompts, inputs, report>>

\* main: args.delete_all; delete_all up to input() or requests.post
CallDeleteAll ==
    /\ pc = "start"
    /\ Selected(args) = "delete_all"
    /\ ran' = "delete_all"
    /\ IF Missing(args.collection)
       THEN /\ Say("Please specify --collection")
            /\ pc' = "done"
            /\ UNCHANGED <<requests, prompts>>
       ELSE IF NeedsConfirm(args)
       THEN /\ prompts' = Append(prompts, [what |-> "ALL", collection |-> args.collection.s])
            /\ pc' = "delete_all_input"
            /\ UNCHANGED <<requests, out>>
       ELSE /\ Send(DeleteAllRequest(args))
            /\ pc' = "delete_all_post"
            /\ UNCHANGED <<prompts, out>>
    /\ UNCHANGED <<args, answers, inputs, points, report>>

\* delete_all after input()
DeleteAllInput ==
    /\ pc = "delete_all_input"
    /\ \E line \in InputLines :
        /\ inputs' = Append(inputs, line)
        /\ IF Confirmed(line)
           THEN /\ Send(DeleteAllRequest(args))
                /\ pc' = "delete_all_post"
                /\ UNCHANGED out
           ELSE /\ Say("Cancelled.")
                /\ pc' = "done"
                /\ UNCHANGED requests
    /\ UNCHANGED <<args, ran, answers, prompts, points, report>>

\* delete_all after requests.post
DeleteAllResponse ==
    /\ pc = "delete_all_post"
    /\ \E status \in Statuses :
        /\ Answer(status)
        /\ IF status = StatusOK
           THEN Say("All vectors deleted")
           ELSE Say("Delete failed")
    /\ pc' = "done"
    /\ UNCHANGED <<args, ran, requests, prompts, inputs, points, report>>

\* main: args.delete_chunk; delete_chunk up to the discovery requests.post
CallDeleteChunk ==
    /\ pc = "start"
    /\ Selected(args) = "delete_chunk"
    /\ ran' = "delete_chunk"
    /\ IF Missing(args.collection)
       THEN /\ Say("Please specify --collection")
            /\ pc' = "done"
            /\ UNCHANGED requests
       ELSE IF Missing(args.chunk_field) \/ Missing(args.value)
       THEN /\ Say("Must specify both --chunk-field and --value")
            /\ pc' = "done"
            /\ UNCHANGED requests
       ELSE /\ Send(ChunkScrollRequest(args))
            /\ pc' = "chunk_scroll_post"
            /\ UNCHANGED out
    /\ UNCHANGED <<args, answers, prompts, inputs, points, report>>

\* delete_chunk after the discovery requests.post, up to input() or the delete requests.post
DeleteChunkScrollResponse ==
    /\ pc = "chunk_scroll_post"
    /\ \E status \in Statuses, page \in IdPages :
        /\ Answer(status)
        /\ IF Failed(status)
           THEN /\ Say("Query failed")
                /\ pc' = "done"
                /\ UNCHANGED <<requests, prompts, points>>
           ELSE /\ points' = page
                /\ IF NoPoints(page)
                   THEN /\ Say("No matching vectors found")
                        /\ pc' = "done"
                        /\ UNCHANGED <<requests, prompts>>
                   ELSE /\ Say("Found vectors")
                        /\ IF NeedsConfirm(args)
                           THEN /\ prompts' = Append(prompts,
                                        [what |-> "vectors", count |-> Len(Ids(page))])
                                /\ pc' = "chunk_input"
                                /\ UNCHANGED requests
                           ELSE /\ Send(ChunkDeleteRequest(args, Ids(page)))
                                /\ pc' = "chunk_delete_post"
                                /\ UNCHANGED prompts
    /\ UNCHANGED <<args, ran, inputs, report>>

\* delete_chunk after input()
DeleteChunkInput ==
    /\ pc = "chunk_input"
    /\ \E line \in InputLines :
        /\ inputs' = Append(inputs, line)
        /\ IF Confirmed(line)
           THEN /\ Send(ChunkDeleteRequest(args, Ids(points)))
                /\ pc' = "chunk_delete_post"
                /\ UNCHANGED out
           ELSE /\ Say("Cancelled.")
                /\ pc' = "done"
                /\ UNCHANGED requests
    /\ UNCHANGED <<args, ran, answers, prompts, points, report>>

\* delete_chunk after the delete requests.post
DeleteChunkDeleteResponse ==
    /\ pc = "chunk_delete_post"
    /\ \E status \in Statuses :
        /\ Answer(status)
        /\ IF status = StatusOK
           THEN Say("Successfully deleted")
           ELSE Say("Delete failed")
    /\ pc' = "done"
    /\ UNCHANGED <<args, ran, requests, prompts, inputs, points, report>>

\* main: no action flag; parser.print_help()
PrintHelp ==
    /\ pc = "start"
    /\ Selected(args) = "help"
    /\ ran' = "help"
    /\ Say("usage")
    /\ pc' = "done"
    /\ UNCHANGED <<args, requests, answers, prompts, inputs, points, report>>

AwaitingResponse ==
    pc \in {"list_get", "view_post", "inspect_post", "delete_all_post",
            "chunk_scroll_post", "chunk_delete_post"}

AwaitingInput == pc \in {"delete_all_input", "chunk_input"}

\* requests.get / requests.post raises (connection refused, timeout): nothing catches it
TransportError ==
    /\ AwaitingResponse
    /\ pc' = "raised"
    /\ UNCHANGED <<args, ran, requests, answers, prompts, inputs, points, report, out>>

\* input() raises EOFError or KeyboardInterrupt: nothing catches it
InputError ==
    /\ AwaitingInput
    /\ pc' = "raised"
    /\ UNCHANGED <<args, ran, requests, answers, prompts, inputs, points, report, out>>

Next ==
    \/ CallListCollections
    \/ ListCollectionsResponse
    \/ CallViewCollection
    \/ ViewCollectionResponse
    \/ CallInspectCollection
    \/ InspectCollectionResponse
    \/ CallDeleteAll
    \/ DeleteAllInput
    \/ DeleteAllResponse
    \/ CallDeleteChunk
    \/ DeleteChunkScrollResponse
    \/ DeleteChunkInput
    \/ DeleteChunkDeleteResponse
    \/ PrintHelp
    \/ TransportError
    \/ InputError

Spec == Init /\ [][Next]_vars

\* ------------------------------------------------------------------- claims
\* what follows the port in a URL
UrlPath(url) == SubSeq(url, 6, Len(url))

IsDeleteRequest(r) == r.url[Len(r.url)] = "/points/delete"
IsScrollRequest(r) == r.url[Len(r.url)] = "/points/scroll"
DeleteRequests == {i \in 1..Len(requests) : IsDeleteRequest(requests[i])}

\* the path of the delete endpoint of the collection named on the command line
CollectionDeletePath == <<"/collections/">> \o args.collection.s \o <<"/points/delete">>
CollectionScrollPath == <<"/collections/">> \o args.collection.s \o <<"/points/scroll">>

Blank(v) == v = PyNone \/ v = PyStr(<<>>)
SaidYes(line) == line = <<"y">> \/ line = <<"Y">>

\* C1: delete-all on a named collection without --yes: a response whose lowercased
\* form is not "y" ends the invocation with no HTTP request sent at all, and a
\* request is sent only when the response is "y" or "Y".
C1_DeleteAllNeedsY ==
    (ran = "delete_all" /\ ~Blank(args.collection) /\ ~args.yes) =>
        /\ (inputs # <<>> /\ Lower(inputs[1]) # <<"y">>) =>
                (requests = <<>> /\ pc = "done")
        /\ requests # <<>> => (inputs # <<>> /\ SaidYes(inputs[1]))

C1_Witness ==
    /\ ran = "delete_all" /\ ~args.yes /\ ~Blank(args.collection)
    /\ inputs = << <<"y", "e", "s">> >>
    /\ pc = "done" /\ requests = <<>>

\* C2: delete-all with --yes on a named collection never prompts and sends exactly
\* one request, POST /collections/{collection}/points/delete with body
\* {"filter": {}}, whatever the backend answers.
C2_DeleteAllYesOneRequest ==
    (ran = "delete_all" /\ args.yes /\ ~Blank(args.collection)) =>
        /\ prompts = <<>>
        /\ inputs = <<>>
        /\ Len(requests) = 1
        /\ requests[1].method = "POST"
        /\ UrlPath(requests[1].url) = CollectionDeletePath
        /\ requests[1].body = [filter |-> <<>>]

C2_Witness ==
    /\ ran = "delete_all" /\ args.yes /\ ~Blank(args.collection)
    /\ pc = "done" /\ answers = <<404>> /\ Len(requests) = 1

\* C3: delete-chunk whose discovery scroll answers 200 with zero points sends no
\* delete request and shows no prompt, with or without --yes: the discovery scroll
\* is the only request.
C3_NoMatchNoDelete ==
    (ran = "delete_chunk" /\ answers # <<>> /\ answers[1] = 200 /\ points = <<>>) =>
        /\ Len(requests) = 1
        /\ IsScrollRequest(requests[1])
        /\ DeleteRequests = {}
        /\ prompts = <<>>
        /\ pc = "done"

C3_Witness ==
    /\ ran = "delete_chunk" /\ args.yes
    /\ answers = <<200>> /\ points = <<>>
    /\ pc = "done" /\ Len(requests) = 1

\* C4: delete-chunk whose discovery scroll answers 200 with N >= 1 points: when
\* confirmed (--yes, or a response "y"/"Y") exactly one delete request follows the
\* scroll, to /collections/{collection}/points/delete, with body {"points": ids},
\* ids being the ids of the returned points in the order returned; when not
\* confirmed no delete request is sent.
C4_DeleteChunkExactIds ==
    (ran = "delete_chunk" /\ answers # <<>> /\ answers[1] = 200 /\ points # <<>>) =>
        IF args.yes \/ (inputs # <<>> /\ SaidYes(inputs[1]))
        THEN /\ Len(requests) = 2
             /\ DeleteRequests = {2}
             /\ requests[2].method = "POST"
             /\ UrlPath(requests[2].url) = CollectionDeletePath
             /\ DOMAIN requests[2].body = {"points"}
             /\ Len(requests[2].body.points) = Len(points)
             /\ \A i \in 1..Len(points) : requests[2].body.points[i] = points[i].id
        ELSE /\ Len(requests) = 1
             /\ DeleteRequests = {}

C4_Witness ==
    /\ ran = "delete_chunk" /\ ~args.yes
    /\ Len(points) = 2 /\ points[1].id > points[2].id
    /\ inputs = << <<"Y">> >>
    /\ Len(requests) = 2 /\ requests[2].body.points = <<points[1].id, points[2].id>>

\* C5: a missing or empty required argument aborts the action with no request and
\* no prompt (view, inspect, delete-all: --collection; delete-chunk: --collection,
\* --chunk-field, --value), and no delete request ever has an empty collection name.
C5_MissingArgumentNoRequest ==
    /\ (ran \in {"view", "inspect", "delete_all"} /\ Blank(args.collection)) =>
            (requests = <<>> /\ prompts = <<>> /\ pc = "done")
    /\ (ran = "delete_chunk" /\ (Blank(args.collection) \/ Blank(args.chunk_field)
                                    \/ Blank(args.value))) =>
            (requests = <<>> /\ prompts = <<>> /\ pc = "done")
    /\ \A i \in DeleteRequests :
            /\ Len(UrlPath(requests[i].url)) = 3
            /\ UrlPath(requests[i].url)[2] # ""

C5_Witness ==
    /\ ran = "delete_chunk"
    /\ ~Blank(args.collection) /\ ~Blank(args.chunk_field) /\ args.value = PyStr(<<>>)
    /\ pc = "done" /\ requests = <<>> /\ prompts = <<>>

FlagOrder == <<"list", "view", "inspect", "delete_all", "delete_chunk">>
GivenFlags == {i \in 1..Len(FlagOrder) : args[FlagOrder[i]]}

\* C6: of the action flags given, exactly the first in the order list, view,
\* inspect, delete-all, delete-chunk runs and the others cause no request and no
\* prompt; with no flag only the usage help is printed and no request is sent.
C6_FirstFlagRuns ==
    /\ ran = "" => (pc = "start" /\ requests = <<>> /\ prompts = <<>> /\ out = <<>>)
    /\ ran # "" =>
        /\ IF GivenFlags = {}
           THEN ran = "help" /\ requests = <<>> /\ prompts = <<>> /\ out = <<"usage">>
           ELSE \E i \in GivenFlags :
                    /\ \A j \in GivenFlags : i <= j
                    /\ ran = FlagOrder[i]
        /\ ran = "list" =>
                (prompts = <<>> /\ \A i \in 1..Len(requests) : requests[i].method = "GET")
        /\ ran \in {"view", "inspect"} =>
                (prompts = <<>> /\ DeleteRequests = {} /\ Len(requests) <= 1)
        /\ ran = "delete_all" =>
                /\ \A i \in 1..Len(requests) : IsDeleteRequest(requests[i])
                /\ \A i \in 1..Len(prompts) : prompts[i].what = "ALL"
        /\ ran = "delete_chunk" =>
                /\ \A i \in 1..Len(prompts) : prompts[i].what = "vectors"
                /\ \A i \in DeleteRequests : DOMAIN requests[i].body = {"points"}

C6_Witness ==
    /\ args.list /\ args.delete_all /\ args.delete_chunk /\ args.yes
    /\ ~Blank(args.collection)
    /\ ran = "list" /\ pc = "done" /\ Len(requests) = 1

\* C9: once a request is answered with a status other than 200 the invocation sends
\* no further request and shows no prompt; a failed discovery scroll of delete-chunk
\* is never followed by a delete request, and a failed delete is not retried.
C9_NoRequestAfterFailure ==
    \A i \in 1..Len(answers) :
        answers[i] # 200 =>
            /\ i = Len(answers)
            /\ Len(requests) = i
            /\ pc = "done"
            /\ Len(prompts) = Len(inputs)
            /\ (ran = "delete_chunk" /\ i = 1) => (DeleteRequests = {} /\ prompts = <<>>)

C9_Witness ==
    /\ ran = "delete_chunk" /\ args.yes
    /\ answers = <<204>> /\ pc = "done" /\ Len(requests) = 1

\* C10: an invocation sends at most two requests, at most one of them a delete; a
\* delete is sent only by delete-all or delete-chunk and targets the collection
\* named by --collection; list, view and inspect send at most one request (GET
\* /collections, or a scroll with with_vector false) and never a delete; in
\* delete-chunk a delete is the second request, after a discovery scroll answered 200.
C10_RequestSequence ==
    /\ Len(requests) <= 2
    /\ Cardinality(DeleteRequests) <= 1
    /\ \A i \in DeleteRequests :
            /\ ran \in {"delete_all", "delete_chunk"}
            /\ UrlPath(requests[i].url) = CollectionDeletePath
    /\ ran \in {"list", "view", "inspect"} =>
            /\ Len(requests) <= 1
            /\ DeleteRequests = {}
            /\ \A i \in 1..Len(requests) :
                    IF ran = "list"
                    THEN /\ requests[i].method = "GET"
                         /\ UrlPath(requests[i].url) = <<"/collections">>
                    ELSE /\ requests[i].method = "POST"
                         /\ UrlPath(requests[i].url) = CollectionScrollPath
                         /\ requests[i].body.with_vector = FALSE
    /\ ran = "delete_chunk" =>
            \A i \in DeleteRequests :
                /\ i = 2
                /\ IsScrollRequest(requests[1])
                /\ UrlPath(requests[1].url) = CollectionScrollPath
                /\ requests[1].body.with_vector = FALSE
                /\ answers # <<>> /\ answers[1] = 200

C10_Witness ==
    /\ ran = "delete_chunk" /\ Len(requests) = 2 /\ DeleteRequests = {2}
    /\ answers = <<200, 200>> /\ pc = "done"

\* the index, among the returned points, of the first chunk of the document key
FirstChunk(key) ==
    CHOOSE j \in 1..Len(points) :
        /\ DocId(PayloadOf(points[j])) = key
        /\ \A k \in 1..(j - 1) : DocId(PayloadOf(points[k])) # key

\* the sample the claim expects for a first chunk's text
ClaimedSample(text) ==
    IF Len(text) > SampleLen THEN SubSeq(text, 1, SampleLen) \o Ellipsis
    ELSE IF text # <<>> THEN text
    ELSE NoText

\* C7: the sample printed by view for a document comes from its first chunk's text:
\* longer than 100 characters, the first 100 followed by "..."; non-empty and at
\* most 100 characters, the text itself with nothing appended; empty or absent,
\* "(no text)".
C7_SampleOfFirstChunk ==
    ran = "view" =>
        \A i \in 1..Len(report) :
            report[i].sample =
                ClaimedSample(ChunkText(PayloadOf(points[FirstChunk(report[i].doc_id)])).s)

\* the group the claim expects for a payload: the first key that is present
ClaimedKey(payload) ==
    IF "doc_id" \in DOMAIN payload THEN payload.doc_id
    ELSE IF "source" \in DOMAIN payload THEN payload.source
    ELSE IF "filename" \in DOMAIN payload THEN payload.filename
    ELSE PyStr(<<"UNKNOWN">>)

RECURSIVE SumChunks(_)
SumChunks(rep) == IF rep = <<>> THEN 0 ELSE Head(rep).chunks + SumChunks(Tail(rep))

\* C8: view puts each returned point in exactly one group, keyed by doc_id when it
\* is set (whatever its value), else by source when present, else by filename, else
\* "UNKNOWN"; groups are printed in first-seen order and the chunk counts sum to the
\* number of returned points.
C8_GroupedByFirstPresentKey ==
    (ran = "view" /\ points # <<>>) =>
        LET keys == [j \in 1..Len(points) |-> ClaimedKey(PayloadOf(points[j]))]
            firstSeen(key) == CHOOSE j \in 1..Len(points) :
                                /\ keys[j] = key
                                /\ \A k \in 1..(j - 1) : keys[k] # key
        IN  /\ \A j \in 1..Len(points) :
                    Cardinality({i \in 1..Len(report) : report[i].doc_id = keys[j]}) = 1
            /\ \A i \in 1..Len(report) :
                    /\ \E j \in 1..Len(points) : keys[j] = report[i].doc_id
                    /\ report[i].chunks =
                            Cardinality({j \in 1..Len(points) : keys[j] = report[i].doc_id})
            /\ \A i1, i2 \in 1..Len(report) :
                    (i1 < i2 /\ (\E j \in 1..Len(points) : keys[j] = report[i1].doc_id)
                             /\ (\E j \in 1..Len(points) : keys[j] = report[i2].doc_id))
                        => firstSeen(report[i1].doc_id) < firstSeen(report[i2].doc_id)
            /\ SumChunks(report) = Len(points)

====
